---- MODULE Spec2Model ----
(***************************************************************************)
(* Model of the Dynamixel web application's device communication core:     *)
(* the process-wide connection context of app.py (dxl, dxl_lock,           *)
(* connection_info, dxl_error_message), the DynamixelController bus        *)
(* session of dynamixel_controller.py with its own lock, the telemetry     *)
(* loop and the Socket.IO handlers, each handler running in its own        *)
(* thread (async_mode="threading").                                        *)
(*                                                                         *)
(* Spec is the connection manager with telemetry and set_torque.  The      *)
(* other handlers are checked in specifications of their own over the same *)
(* variables: SpecCommands (set_operating_mode, set_goals, set_pid),       *)
(* SpecScan (scan_servos), SpecConnectInput (the checks connect_servos     *)
(* makes on its message), SpecCodec (a register written and read back) and *)
(* SpecCommandRace (two handlers sending commands to one session).         *)
(***************************************************************************)
EXTENDS Integers, Sequences, FiniteSets, TLC

VARIABLES
    dxl,                 \* app.py:20    active controller (session number) or None
    dxl_lock,            \* app.py:21    thread holding the connection lock
    connection_info,     \* app.py:22    metadata {port, baudrate, ids}
    dxl_error_message,   \* app.py:27    last error
    running,             \* app.py:31
    telemetry_thread,    \* app.py:29    TRUE once the background task was started
    sessions,            \* every DynamixelController whose port was opened
    pc,                  \* position of each thread
    loc,                 \* local variables of each thread
    nops                 \* handler invocations so far

vars == <<dxl, dxl_lock, connection_info, dxl_error_message, running,
          telemetry_thread, sessions, pc, loc, nops>>

----------------------------------------------------------------------------
(* Bounds and input sets *)

\* sessions whose port is ever opened, and handler invocations, in one run
MaxSessions == 2
MaxOps == 3

Handlers == {"h1", "h2"}
Tel == "tel"
Threads == Handlers \cup {Tel}

\* the connect requests a client sends: two sessions that differ in every field;
\* with a read failure on any device, <<1, 2>> gives both orders of a healthy
\* and a faulty device
Requests ==
    { [port |-> "COM1", baudrate |-> 57600,   ids |-> <<1, 2>>],
      [port |-> "COM2", baudrate |-> 1000000, ids |-> <<3>>] }

NoSession == 0
NoThread == "none"
NoError == "none"

EmptyInfo == [port |-> "None", baudrate |-> 0, ids |-> <<>>]

NoRequest == [port |-> "None", baudrate |-> 0, ids |-> <<>>]

----------------------------------------------------------------------------
(* Telemetry state of one device, as read_state builds it *)

TelemetryFields ==
    << "operating_mode", "torque_enabled", "present_pwm", "present_current",
       "present_velocity", "present_position", "moving" >>

NumFields == Len(TelemetryFields)

AllKeys == {TelemetryFields[k] : k \in 1..NumFields} \cup {"operating_mode_name"}

EmptyState == [keys |-> {}, error |-> NoError]

\* state[field] = value, plus the mode label once the last field was read
StateAfterRead(state, f) ==
    [state EXCEPT !.keys = @ \cup {TelemetryFields[f]}
                             \cup (IF f = NumFields THEN {"operating_mode_name"} ELSE {})]

\* except DynamixelError as exc: state["error"] = str(exc)
StateAfterError(state, kind) == [state EXCEPT !.error = kind]

\* result[dxl_id] = self.read_state(dxl_id)
StoreResult(data, id, state) ==
    [d \in (DOMAIN data) \cup {id} |-> IF d = id THEN state ELSE data[d]]

----------------------------------------------------------------------------
(* Thread locals *)

Loc0 ==
    [ req        |-> NoRequest,   \* arguments of the handler
      controller |-> NoSession,   \* snapshot of dxl / session under construction
      prev       |-> NoSession,   \* session closed by this call
      i          |-> 0,           \* index in self.ids
      f          |-> 0,           \* index in the telemetry field list
      state      |-> EmptyState,  \* read_state's dict
      data       |-> <<>>,        \* read_all's dict
      faulted    |-> {},          \* ids whose read raised DynamixelError this cycle
      ios        |-> 0,           \* transport operations performed by this call
      ok         |-> FALSE,
      msg        |-> "none",
      connected  |-> FALSE,
      info       |-> EmptyInfo,
      err        |-> NoError,
      op         |-> "none",      \* the handler being run
      message    |-> <<>>,        \* the Socket.IO message of a command
      writes     |-> <<>>,        \* register writes the controller call makes
      k          |-> 0,           \* index of the write in progress
      wire       |-> <<>>,        \* exchanges this call has issued, with results
      reply      |-> "none",      \* what the handler emitted to the client
      cfg        |-> <<>>,        \* the configured defaults the scan imports
      baudrate   |-> 0,           \* locals of handle_scan_servos
      id_min     |-> 0,
      id_max     |-> 0,
      dxl_id     |-> 0,
      found_ids  |-> <<>>,
      probes     |-> <<>>,        \* the pings made, with what they did
      port_handler |-> "none",    \* the scan's own transport
      before     |-> <<>>,        \* the connection context when the handler began
      bytes      |-> <<>>,        \* the bytes a register holds after a write
      value      |-> 0 ]          \* the value a read returned

Init ==
    /\ dxl = NoSession
    /\ dxl_lock = NoThread
    /\ connection_info = EmptyInfo
    /\ dxl_error_message = NoError
    /\ running = TRUE
    /\ telemetry_thread = FALSE
    /\ sessions = <<>>
    /\ pc = [t \in Threads |-> IF t = Tel THEN "tl_idle" ELSE "idle"]
    /\ loc = [t \in Threads |-> Loc0]
    /\ nops = 0

----------------------------------------------------------------------------
(* The bus session: DynamixelController *)

NewSession(req) ==
    [ port_name |-> req.port, baudrate |-> req.baudrate, ids |-> req.ids,
      port |-> "open", lock |-> NoThread, inflight |-> {},
      opens |-> 1, closes |-> 0 ]

\* faulty variant: the exchange is entered without waiting for the session's lock
SessionLockIgnored(s) == TRUE

\* with self.lock: blocks while another thread holds the session's lock
SessionLockFree(s) == sessions[s].lock = NoThread

\* entering "with self.lock:" and starting the transport operation
BeginExchange(t, s) ==
    sessions' = [sessions EXCEPT ![s].lock = t, ![s].inflight = @ \cup {t}]

\* the transport operation returned; leaving "with self.lock:"
EndExchange(t, s) ==
    sessions' = [sessions EXCEPT ![s].lock = NoThread, ![s].inflight = @ \ {t}]

\* close(): self.port_handler is never reset, so closePort() is always called
EndClose(t, s) ==
    sessions' = [sessions EXCEPT ![s].lock = NoThread, ![s].inflight = @ \ {t},
                                 ![s].port = "closed", ![s].closes = @ + 1]

\* What a request/response exchange can return.  On an open port: a value
\* ("ok"), or a result that the caller turns into a DynamixelError ("error":
\* dxl_comm_result != COMM_SUCCESS or dxl_error != 0).  On a port that was
\* closed the transport either reports a failure or raises an exception of its
\* own, which is not a DynamixelError.
ExchangeOutcomes(s) ==
    IF sessions[s].port = "open" THEN {"ok", "error"} ELSE {"error", "raise"}

----------------------------------------------------------------------------
(* Telemetry: telemetry_loop, read_all, read_state *)

\* faulty variant: a failed device read ends the loop over self.ids
NextDeviceStopOnFailure(i, n, failed) == IF failed \/ i >= n THEN 0 ELSE i + 1

\* for dxl_id in self.ids: the index of the next device, 0 when the loop is over
NextDevice(i, n, failed) == IF i < n THEN i + 1 ELSE 0

\* while running:
TelWhile ==
    /\ pc[Tel] = "tl_while"
    /\ UNCHANGED nops
    /\ pc' = [pc EXCEPT ![Tel] = IF running THEN "tl_snap" ELSE "tl_exit"]
    /\ UNCHANGED <<dxl, dxl_lock, connection_info, dxl_error_message, running,
                   telemetry_thread, sessions, loc>>

\* with dxl_lock: controller = dxl; then the branch on controller is not None
TelSnapshot ==
    /\ pc[Tel] = "tl_snap"
    /\ UNCHANGED nops
    /\ dxl_lock = NoThread
    /\ IF dxl /= NoSession
          THEN /\ loc' = [loc EXCEPT ![Tel] = [Loc0 EXCEPT !.controller = dxl,
                                                           !.i = 1, !.f = 1]]
               /\ pc' = [pc EXCEPT ![Tel] = "rs_begin"]
          ELSE /\ loc' = [loc EXCEPT ![Tel] = Loc0]
               /\ pc' = [pc EXCEPT ![Tel] = "tl_emit"]
    /\ UNCHANGED <<dxl, dxl_lock, connection_info, dxl_error_message, running,
                   telemetry_thread, sessions>>

\* _read1/_read2/_read4: with self.lock: ... readNByteTxRx is entered
ReadBegin ==
    /\ pc[Tel] = "rs_begin"
    /\ UNCHANGED nops
    /\ SessionLockFree(loc[Tel].controller)
    /\ BeginExchange(Tel, loc[Tel].controller)
    /\ pc' = [pc EXCEPT ![Tel] = "rs_end"]
    /\ UNCHANGED <<dxl, dxl_lock, connection_info, dxl_error_message, running,
                   telemetry_thread, loc>>

\* the rest of read_state and read_all after a field was read or its read failed
AfterField(l, ids, outcome) ==
    LET id     == ids[l.i]
        failed == outcome /= "ok"
        st     == IF failed THEN StateAfterError(l.state, outcome)
                            ELSE StateAfterRead(l.state, l.f)
        done   == failed \/ l.f = NumFields
    IN  IF ~done
           THEN [l EXCEPT !.state = st, !.f = l.f + 1]
           ELSE [l EXCEPT !.state = EmptyState,
                          !.data = StoreResult(l.data, id, st),
                          !.faulted = IF failed THEN @ \cup {id} ELSE @ \ {id},
                          !.i = NextDevice(l.i, Len(ids), failed),
                          !.f = 1]

\* the exchange returns: a value, a DynamixelError, or an exception of the transport
ReadEnd ==
    /\ pc[Tel] = "rs_end"
    /\ UNCHANGED nops
    /\ \E outcome \in ExchangeOutcomes(loc[Tel].controller) :
          /\ EndExchange(Tel, loc[Tel].controller)
          /\ IF outcome = "raise"
                THEN \* not a DynamixelError: propagates out of read_state,
                     \* read_all and telemetry_loop; the thread ends
                     /\ pc' = [pc EXCEPT ![Tel] = "tl_dead"]
                     /\ loc' = [loc EXCEPT ![Tel] = Loc0]
                ELSE LET l == AfterField(loc[Tel], sessions[loc[Tel].controller].ids,
                                         outcome)
                     IN  /\ loc' = [loc EXCEPT ![Tel] = l]
                         /\ pc' = [pc EXCEPT ![Tel] =
                                      IF l.i = 0 THEN "tl_emit" ELSE "rs_begin"]
    /\ UNCHANGED <<dxl, dxl_lock, connection_info, dxl_error_message, running,
                   telemetry_thread>>

\* socketio.emit("telemetry", ...); socketio.sleep(TELEMETRY_DT)
TelEmit ==
    /\ pc[Tel] = "tl_emit"
    /\ UNCHANGED nops
    /\ pc' = [pc EXCEPT ![Tel] = "tl_while"]
    /\ loc' = [loc EXCEPT ![Tel] = Loc0]
    /\ UNCHANGED <<dxl, dxl_lock, connection_info, dxl_error_message, running,
                   telemetry_thread, sessions>>

----------------------------------------------------------------------------
(* Connection manager: connect_controller, called by handle_connect_servos *)

\* faulty variant: the new ids are merged into the metadata of the previous session
InstalledInfoMerged(req) ==
    [port |-> req.port, baudrate |-> req.baudrate,
     ids |-> connection_info.ids \o req.ids]

\* connection_info = {"port": port, "baudrate": baudrate, "ids": ids}
InstalledInfo(req) == [port |-> req.port, baudrate |-> req.baudrate, ids |-> req.ids]

\* dxl_error_message = None on success
ErrorAfterConnect == NoError

\* faulty variant: the failure message is not recorded
ErrorAfterFailureDropped(e) == dxl_error_message

\* except Exception as e: dxl_error_message = str(e)
ErrorAfterFailure(e) == e

\* the active controller once the previous one was closed: dxl = None
DxlAfterClose(old) == NoSession

\* faulty variant: the metadata is not reset
InfoAfterDisconnectKept(old) == old

\* connection_info = {"port": None, "baudrate": None, "ids": []}
InfoAfterDisconnect(old) == EmptyInfo

\* handle_connect_servos with a port and ids: connect_controller(port, baudrate, ids)
StartConnect(t) ==
    /\ pc[t] = "idle"
    /\ nops < MaxOps
    /\ nops' = nops + 1
    /\ Len(sessions) < MaxSessions
    /\ \E req \in Requests :
          loc' = [loc EXCEPT ![t] = [Loc0 EXCEPT !.req = req, !.op = "connect_servos"]]
    /\ pc' = [pc EXCEPT ![t] = "cc_lock"]
    /\ UNCHANGED <<dxl, dxl_lock, connection_info, dxl_error_message, running,
                   telemetry_thread, sessions>>

\* with dxl_lock: if dxl is not None:
ConnectLock(t) ==
    /\ pc[t] = "cc_lock"
    /\ UNCHANGED nops
    /\ dxl_lock = NoThread
    /\ dxl_lock' = t
    /\ pc' = [pc EXCEPT ![t] = IF dxl /= NoSession THEN "cc_close_b" ELSE "cc_open"]
    /\ UNCHANGED <<dxl, connection_info, dxl_error_message, running,
                   telemetry_thread, sessions, loc>>

\* dxl.close(): with self.lock:
ConnectCloseBegin(t) ==
    /\ pc[t] = "cc_close_b"
    /\ UNCHANGED nops
    /\ SessionLockFree(dxl)
    /\ BeginExchange(t, dxl)
    /\ pc' = [pc EXCEPT ![t] = "cc_close_e"]
    /\ UNCHANGED <<dxl, dxl_lock, connection_info, dxl_error_message, running,
                   telemetry_thread, loc>>

\* self.port_handler.closePort(); then dxl = None
ConnectCloseEnd(t) ==
    /\ pc[t] = "cc_close_e"
    /\ UNCHANGED nops
    /\ EndClose(t, dxl)
    /\ dxl' = DxlAfterClose(dxl)
    /\ loc' = [loc EXCEPT ![t].prev = dxl, ![t].ios = @ + 1]
    /\ pc' = [pc EXCEPT ![t] = "cc_open"]
    /\ UNCHANGED <<dxl_lock, connection_info, dxl_error_message, running,
                   telemetry_thread>>

\* the except branch of connect_controller
ConnectFails(t, e) ==
    /\ dxl' = NoSession
    /\ dxl_error_message' = ErrorAfterFailure(e)
    /\ loc' = [loc EXCEPT ![t].ok = FALSE, ![t].msg = e, ![t].controller = NoSession]
    /\ pc' = [pc EXCEPT ![t] = "cc_unlock"]
    /\ UNCHANGED <<dxl_lock, connection_info, running, telemetry_thread>>

\* DynamixelController.__init__: self.port_handler.openPort()
ConnectOpen(t) ==
    /\ pc[t] = "cc_open"
    /\ UNCHANGED nops
    /\ \/ /\ sessions' = Append(sessions, NewSession(loc[t].req))
          /\ loc' = [loc EXCEPT ![t].controller = Len(sessions) + 1, ![t].ios = @ + 1]
          /\ pc' = [pc EXCEPT ![t] = "cc_baud"]
          /\ UNCHANGED <<dxl, dxl_lock, connection_info, dxl_error_message, running,
                         telemetry_thread>>
       \/ /\ ConnectFails(t, "Failed to open port")
          /\ UNCHANGED sessions

\* DynamixelController.__init__: self.port_handler.setBaudRate(baudrate)
ConnectBaud(t) ==
    /\ pc[t] = "cc_baud"
    /\ UNCHANGED nops
    /\ \/ /\ loc' = [loc EXCEPT ![t].i = 1, ![t].ios = @ + 1]
          /\ pc' = [pc EXCEPT ![t] = "cc_ping_b"]
          /\ UNCHANGED <<dxl, dxl_lock, connection_info, dxl_error_message, running,
                         telemetry_thread, sessions>>
       \/ \* raises with the port left open: nothing closes it
          /\ ConnectFails(t, "Failed to set baudrate")
          /\ UNCHANGED sessions

\* __init__: for dxl_id in self.ids: self.get_model_number(dxl_id): with self.lock
ConnectPingBegin(t) ==
    /\ pc[t] = "cc_ping_b"
    /\ UNCHANGED nops
    /\ SessionLockFree(loc[t].controller)
    /\ BeginExchange(t, loc[t].controller)
    /\ pc' = [pc EXCEPT ![t] = "cc_ping_e"]
    /\ UNCHANGED <<dxl, dxl_lock, connection_info, dxl_error_message, running,
                   telemetry_thread, loc>>

\* the ping returns; a DynamixelError is printed and the loop goes on
ConnectPingEnd(t) ==
    /\ pc[t] = "cc_ping_e"
    /\ UNCHANGED nops
    /\ EndExchange(t, loc[t].controller)
    /\ LET n == NextDevice(loc[t].i, Len(loc[t].req.ids), FALSE)
       IN  /\ loc' = [loc EXCEPT ![t].i = n, ![t].ios = @ + 1]
           /\ pc' = [pc EXCEPT ![t] = IF n = 0 THEN "cc_install" ELSE "cc_ping_b"]
    /\ UNCHANGED <<dxl, dxl_lock, connection_info, dxl_error_message, running,
                   telemetry_thread>>

\* dxl = controller; connection_info = {...}; dxl_error_message = None
ConnectInstall(t) ==
    /\ pc[t] = "cc_install"
    /\ UNCHANGED nops
    /\ dxl' = loc[t].controller
    /\ connection_info' = InstalledInfo(loc[t].req)
    /\ dxl_error_message' = ErrorAfterConnect
    /\ loc' = [loc EXCEPT ![t].ok = TRUE, ![t].msg = "Connected successfully."]
    /\ pc' = [pc EXCEPT ![t] = "cc_unlock"]
    /\ UNCHANGED <<dxl_lock, running, telemetry_thread, sessions>>

\* faulty variant: a call that failed returns without giving the lock back
DxlLockKeptOnFailure(t) == IF loc[t].ok THEN NoThread ELSE t

\* leaving "with dxl_lock:": the lock is released on every way out of the block
DxlLockReleased(t) == NoThread

\* return ...: the "with dxl_lock" block is left
ConnectUnlock(t) ==
    /\ pc[t] = "cc_unlock"
    /\ UNCHANGED nops
    /\ dxl_lock' = DxlLockReleased(t)
    /\ pc' = [pc EXCEPT ![t] = "cs_emit"]
    /\ UNCHANGED <<dxl, connection_info, dxl_error_message, running,
                   telemetry_thread, sessions, loc>>

\* handle_connect_servos: emit("connect_result", {ok, message, connected: ok,
\* info: connection_info}), connection_info being read without the lock
ConnectEmit(t) ==
    /\ pc[t] = "cs_emit"
    /\ UNCHANGED nops
    /\ loc' = [loc EXCEPT ![t].connected = loc[t].ok, ![t].info = connection_info,
                          ![t].reply = "connect_result"]
    /\ pc' = [pc EXCEPT ![t] = "ret"]
    /\ UNCHANGED <<dxl, dxl_lock, connection_info, dxl_error_message, running,
                   telemetry_thread, sessions>>

\* the handler returns
Return(t) ==
    /\ pc[t] = "ret"
    /\ UNCHANGED nops
    /\ pc' = [pc EXCEPT ![t] = "idle"]
    /\ loc' = [loc EXCEPT ![t] = Loc0]
    /\ UNCHANGED <<dxl, dxl_lock, connection_info, dxl_error_message, running,
                   telemetry_thread, sessions>>

----------------------------------------------------------------------------
(* disconnect_controller, called by handle_disconnect_servos and by shutdown *)

StartDisconnect(t) ==
    /\ pc[t] = "idle"
    /\ nops < MaxOps
    /\ nops' = nops + 1
    /\ loc' = [loc EXCEPT ![t] = [Loc0 EXCEPT !.op = "disconnect_servos"]]
    /\ pc' = [pc EXCEPT ![t] = "dc_lock"]
    /\ UNCHANGED <<dxl, dxl_lock, connection_info, dxl_error_message, running,
                   telemetry_thread, sessions>>

\* atexit: running = False; disconnect_controller()
StartShutdown(t) ==
    /\ pc[t] = "idle"
    /\ nops < MaxOps
    /\ nops' = nops + 1
    /\ running
    /\ running' = FALSE
    /\ loc' = [loc EXCEPT ![t] = [Loc0 EXCEPT !.op = "shutdown"]]
    /\ pc' = [pc EXCEPT ![t] = "dc_lock"]
    /\ UNCHANGED <<dxl, dxl_lock, connection_info, dxl_error_message,
                   telemetry_thread, sessions>>

\* with dxl_lock: if dxl is not None:
DisconnectLock(t) ==
    /\ pc[t] = "dc_lock"
    /\ UNCHANGED nops
    /\ dxl_lock = NoThread
    /\ dxl_lock' = t
    /\ loc' = [loc EXCEPT ![t].controller = dxl]
    /\ pc' = [pc EXCEPT ![t] = IF dxl /= NoSession THEN "dc_close_b" ELSE "dc_reset"]
    /\ UNCHANGED <<dxl, connection_info, dxl_error_message, running,
                   telemetry_thread, sessions>>

\* dxl.close(): with self.lock:
DisconnectCloseBegin(t) ==
    /\ pc[t] = "dc_close_b"
    /\ UNCHANGED nops
    /\ SessionLockFree(dxl)
    /\ BeginExchange(t, dxl)
    /\ pc' = [pc EXCEPT ![t] = "dc_close_e"]
    /\ UNCHANGED <<dxl, dxl_lock, connection_info, dxl_error_message, running,
                   telemetry_thread, loc>>

\* self.port_handler.closePort(); then dxl = None
DisconnectCloseEnd(t) ==
    /\ pc[t] = "dc_close_e"
    /\ UNCHANGED nops
    /\ EndClose(t, dxl)
    /\ dxl' = DxlAfterClose(dxl)
    /\ loc' = [loc EXCEPT ![t].prev = dxl, ![t].ios = @ + 1]
    /\ pc' = [pc EXCEPT ![t] = "dc_reset"]
    /\ UNCHANGED <<dxl_lock, connection_info, dxl_error_message, running,
                   telemetry_thread>>

\* connection_info = {port: None, baudrate: None, ids: []}
DisconnectReset(t) ==
    /\ pc[t] = "dc_reset"
    /\ UNCHANGED nops
    /\ connection_info' = InfoAfterDisconnect(connection_info)
    /\ pc' = [pc EXCEPT ![t] = "dc_unlock"]
    /\ UNCHANGED <<dxl, dxl_lock, dxl_error_message, running, telemetry_thread,
                   sessions, loc>>

\* the "with dxl_lock" block is left; disconnect_controller returns
DisconnectUnlock(t) ==
    /\ pc[t] = "dc_unlock"
    /\ UNCHANGED nops
    /\ dxl_lock' = DxlLockReleased(t)
    /\ pc' = [pc EXCEPT ![t] = IF loc[t].op = "shutdown" THEN "ret" ELSE "ds_emit"]
    /\ UNCHANGED <<dxl, connection_info, dxl_error_message, running,
                   telemetry_thread, sessions, loc>>

\* handle_disconnect_servos: emit("connect_result", {ok: True, connected: False,
\* info: connection_info}), connection_info being read without the lock
DisconnectEmit(t) ==
    /\ pc[t] = "ds_emit"
    /\ UNCHANGED nops
    /\ loc' = [loc EXCEPT ![t].ok = TRUE, ![t].connected = FALSE,
                          ![t].msg = "Disconnected from Dynamixel bus.",
                          ![t].info = connection_info]
    /\ pc' = [pc EXCEPT ![t] = "ret"]
    /\ UNCHANGED <<dxl, dxl_lock, connection_info, dxl_error_message, running,
                   telemetry_thread, sessions>>

----------------------------------------------------------------------------
(* handle_connect: a client connects and is sent the connection status *)

\* ensure_telemetry_thread(): the loop is started once
StartStatus(t) ==
    /\ pc[t] = "idle"
    /\ nops < MaxOps
    /\ nops' = nops + 1
    /\ loc' = [loc EXCEPT ![t] = [Loc0 EXCEPT !.op = "connect"]]
    /\ telemetry_thread' = TRUE
    /\ pc' = [pc EXCEPT ![t] = "hc_ok",
                        ![Tel] = IF telemetry_thread THEN @ ELSE "tl_while"]
    /\ UNCHANGED <<dxl, dxl_lock, connection_info, dxl_error_message, running,
                   sessions>>

\* "ok": dxl is not None
StatusReadOk(t) ==
    /\ pc[t] = "hc_ok"
    /\ UNCHANGED nops
    /\ loc' = [loc EXCEPT ![t].ok = (dxl /= NoSession)]
    /\ pc' = [pc EXCEPT ![t] = "hc_msg"]
    /\ UNCHANGED <<dxl, dxl_lock, connection_info, dxl_error_message, running,
                   telemetry_thread, sessions>>

\* "message": "Connected" if dxl is not None else "Not connected"
StatusReadMessage(t) ==
    /\ pc[t] = "hc_msg"
    /\ UNCHANGED nops
    /\ loc' = [loc EXCEPT ![t].msg = IF dxl /= NoSession THEN "Connected"
                                                         ELSE "Not connected"]
    /\ pc' = [pc EXCEPT ![t] = "hc_connected"]
    /\ UNCHANGED <<dxl, dxl_lock, connection_info, dxl_error_message, running,
                   telemetry_thread, sessions>>

\* "connected": dxl is not None
StatusReadConnected(t) ==
    /\ pc[t] = "hc_connected"
    /\ UNCHANGED nops
    /\ loc' = [loc EXCEPT ![t].connected = (dxl /= NoSession)]
    /\ pc' = [pc EXCEPT ![t] = "hc_info"]
    /\ UNCHANGED <<dxl, dxl_lock, connection_info, dxl_error_message, running,
                   telemetry_thread, sessions>>

\* "info": connection_info; the connect_result is emitted
StatusReadInfo(t) ==
    /\ pc[t] = "hc_info"
    /\ UNCHANGED nops
    /\ loc' = [loc EXCEPT ![t].info = connection_info]
    /\ pc' = [pc EXCEPT ![t] = "hc_err"]
    /\ UNCHANGED <<dxl, dxl_lock, connection_info, dxl_error_message, running,
                   telemetry_thread, sessions>>

\* if dxl_error_message: emit("backend_error", ...)
StatusReadError(t) ==
    /\ pc[t] = "hc_err"
    /\ UNCHANGED nops
    /\ loc' = [loc EXCEPT ![t].err = dxl_error_message]
    /\ pc' = [pc EXCEPT ![t] = "ret"]
    /\ UNCHANGED <<dxl, dxl_lock, connection_info, dxl_error_message, running,
                   telemetry_thread, sessions>>

----------------------------------------------------------------------------
(* handle_set_torque: a foreground command on the active session *)

StartSetTorque(t) ==
    /\ pc[t] = "idle"
    /\ nops < MaxOps
    /\ nops' = nops + 1
    /\ loc' = [loc EXCEPT ![t] = [Loc0 EXCEPT !.op = "set_torque"]]
    /\ pc' = [pc EXCEPT ![t] = "st_snap"]
    /\ UNCHANGED <<dxl, dxl_lock, connection_info, dxl_error_message, running,
                   telemetry_thread, sessions>>

\* with dxl_lock: controller = dxl; if controller is None: backend_error
CommandSnapshot(t) ==
    /\ pc[t] = "st_snap"
    /\ UNCHANGED nops
    /\ dxl_lock = NoThread
    /\ IF dxl /= NoSession
          THEN /\ loc' = [loc EXCEPT ![t].controller = dxl]
               /\ pc' = [pc EXCEPT ![t] = "st_begin"]
          ELSE /\ loc' = [loc EXCEPT ![t].err = "Not connected to any Dynamixel bus."]
               /\ pc' = [pc EXCEPT ![t] = "ret"]
    /\ UNCHANGED <<dxl, dxl_lock, connection_info, dxl_error_message, running,
                   telemetry_thread, sessions>>

\* set_torque -> _write1: with self.lock: write1ByteTxRx is entered
WriteBegin(t) ==
    /\ pc[t] = "st_begin"
    /\ UNCHANGED nops
    /\ SessionLockFree(loc[t].controller)
    /\ BeginExchange(t, loc[t].controller)
    /\ pc' = [pc EXCEPT ![t] = "st_end"]
    /\ UNCHANGED <<dxl, dxl_lock, connection_info, dxl_error_message, running,
                   telemetry_thread, loc>>

\* the write returns: the handler logs success, logs the DynamixelError, or is
\* ended by an exception of the transport that it does not catch
WriteEnd(t) ==
    /\ pc[t] = "st_end"
    /\ UNCHANGED nops
    /\ \E outcome \in ExchangeOutcomes(loc[t].controller) :
          /\ EndExchange(t, loc[t].controller)
          /\ loc' = [loc EXCEPT ![t].ok = (outcome = "ok"), ![t].msg = outcome]
    /\ pc' = [pc EXCEPT ![t] = "ret"]
    /\ UNCHANGED <<dxl, dxl_lock, connection_info, dxl_error_message, running,
                   telemetry_thread>>

----------------------------------------------------------------------------
(* The register codec: _write1/_write2/_write4 and _read1/_read2/_read4 *)

ADDR_OPERATING_MODE == 11
ADDR_TORQUE_ENABLE == 64
ADDR_PROFILE_ACCEL == 108
ADDR_PROFILE_VELOCITY == 112
ADDR_GOAL_PWM == 100
ADDR_GOAL_CURRENT == 102
ADDR_GOAL_VELOCITY == 104
ADDR_GOAL_POSITION == 116

\* 1 << (8 * k)
Pow256(k) == IF k = 0 THEN 1 ELSE IF k = 1 THEN 256 ELSE IF k = 2 THEN 65536 ELSE 16777216

\* writeNByteTxRx(port, id, addr, value & 0xFF.., 0xFFFF, 0xFFFFFFFF): the bytes
\* of the masked value, low byte first
Wire(width, value) == [k \in 1..width |-> (value \div Pow256(k - 1)) % 256]

\* _read1: the byte as it is
Read1(bytes) == bytes[1]

\* _read2: if value & 0x8000: value -= 0x10000
Read2(bytes) ==
    LET value == bytes[1] + 256 * bytes[2]
    IN  IF (value \div 32768) % 2 = 1 THEN value - 65536 ELSE value

\* _read4: if value & 0x80000000: value -= 0x100000000 (the subtraction is
\* carried by the top byte, the unsigned value not being a machine integer here)
Read4(bytes) ==
    LET low == bytes[1] + 256 * bytes[2] + 65536 * bytes[3]
    IN  IF (bytes[4] \div 128) % 2 = 1 THEN low + 16777216 * (bytes[4] - 256)
                                       ELSE low + 16777216 * bytes[4]

\* faulty variant: a one-byte register is sign-recovered like the wider ones
ReadSigned(width, bytes) ==
    IF width = 1 THEN (IF bytes[1] >= 128 THEN bytes[1] - 256 ELSE bytes[1])
    ELSE IF width = 2 THEN Read2(bytes) ELSE Read4(bytes)

Read(width, bytes) ==
    IF width = 1 THEN Read1(bytes) ELSE IF width = 2 THEN Read2(bytes) ELSE Read4(bytes)

----------------------------------------------------------------------------
(* Foreground commands: handle_set_operating_mode, handle_set_goals,       *)
(* handle_set_pid and the controller methods they call                     *)

\* the thread that runs the commands, and the devices and modes they name
CommandThread == "h1"
CommandIds == {1, 2}
Modes == {1, 3}

\* a form field left empty: "" or False
NoValue == -1

GoalKeys ==
    {"goalPosition", "goalVelocity", "goalCurrent", "goalPwm", "profileVelocity",
     "profileAccel"}

GoalValues == {0, 7}

\* {"id", "mode"} with or without "autoTorque"
ModeMessages ==
    { [id |-> d, mode |-> m] : d \in CommandIds, m \in Modes }
    \cup { [id |-> d, mode |-> m, autoTorque |-> a] :
              d \in CommandIds, m \in Modes, a \in BOOLEAN }

\* {"id"} and any of the goal keys, each with a value; and the form with one
\* field left empty
GoalMessages ==
    UNION { { ("id" :> 1) @@ g : g \in [K -> GoalValues] } : K \in SUBSET GoalKeys }
    \cup { ("id" :> 2) @@ [k \in GoalKeys |-> IF k = x THEN NoValue ELSE 7] :
              x \in GoalKeys }

\* {"id"} and any of the gain keys the client sends
PidKeys == {"P", "I", "D", "velocityP", "velocityI"}
PidMessages == { ("id" :> d) @@ [k \in K |-> 7] : d \in CommandIds, K \in SUBSET PidKeys }

\* bool(message.get("autoTorque", True))
AutoTorque(message) ==
    IF "autoTorque" \in DOMAIN message THEN message.autoTorque ELSE TRUE

\* maybe_int: None for a missing key, "" and False; the integer otherwise
maybe_int(message, key) ==
    IF key \notin DOMAIN message THEN [none |-> TRUE, v |-> 0]
    ELSE IF message[key] = NoValue THEN [none |-> TRUE, v |-> 0]
    ELSE [none |-> FALSE, v |-> message[key]]

RegWrite(dxl_id, addr, width, value, tolerated) ==
    [id |-> dxl_id, addr |-> addr, width |-> width, value |-> value,
     tolerated |-> tolerated]

\* faulty variant: the torque is switched on again before the mode is written
ModeWritesEnableFirst(dxl_id, mode, auto_torque) ==
    IF auto_torque
       THEN << RegWrite(dxl_id, ADDR_TORQUE_ENABLE, 1, 0, TRUE),
               RegWrite(dxl_id, ADDR_TORQUE_ENABLE, 1, 1, FALSE),
               RegWrite(dxl_id, ADDR_OPERATING_MODE, 1, mode, FALSE) >>
       ELSE << RegWrite(dxl_id, ADDR_OPERATING_MODE, 1, mode, FALSE) >>

\* set_operating_mode: set_torque(False) whose DynamixelError is ignored,
\* _write1(ADDR_OPERATING_MODE, mode), set_torque(True)
ModeWrites(dxl_id, mode, auto_torque) ==
    (IF auto_torque THEN << RegWrite(dxl_id, ADDR_TORQUE_ENABLE, 1, 0, TRUE) >> ELSE << >>)
    \o << RegWrite(dxl_id, ADDR_OPERATING_MODE, 1, mode, FALSE) >>
    \o (IF auto_torque THEN << RegWrite(dxl_id, ADDR_TORQUE_ENABLE, 1, 1, FALSE) >> ELSE << >>)

\* faulty variant: a goal of 0 is taken for a missing one ("if goal:")
GoalWriteIfTruthy(dxl_id, addr, width, goal) ==
    IF goal.none \/ goal.v = 0 THEN << >>
    ELSE << RegWrite(dxl_id, addr, width, goal.v, FALSE) >>

\* if goal is not None: self._writeN(dxl_id, addr, goal)
GoalWrite(dxl_id, addr, width, goal) ==
    IF goal.none THEN << >> ELSE << RegWrite(dxl_id, addr, width, goal.v, FALSE) >>

\* set_goals: the six tests in the order of the method's body
GoalWrites(dxl_id, kw) ==
    GoalWrite(dxl_id, ADDR_PROFILE_ACCEL, 4, kw.profile_accel)
    \o GoalWrite(dxl_id, ADDR_PROFILE_VELOCITY, 4, kw.profile_velocity)
    \o GoalWrite(dxl_id, ADDR_GOAL_PWM, 2, kw.goal_pwm)
    \o GoalWrite(dxl_id, ADDR_GOAL_CURRENT, 2, kw.goal_current)
    \o GoalWrite(dxl_id, ADDR_GOAL_VELOCITY, 4, kw.goal_velocity)
    \o GoalWrite(dxl_id, ADDR_GOAL_POSITION, 4, kw.goal_position)

\* kwargs = dict(goal_position=maybe_int("goalPosition"), ...)
GoalKwargs(message) ==
    [ goal_position    |-> maybe_int(message, "goalPosition"),
      goal_velocity    |-> maybe_int(message, "goalVelocity"),
      goal_current     |-> maybe_int(message, "goalCurrent"),
      goal_pwm         |-> maybe_int(message, "goalPwm"),
      profile_velocity |-> maybe_int(message, "profileVelocity"),
      profile_accel    |-> maybe_int(message, "profileAccel") ]

StartCommand(t, op, message) ==
    /\ nops' = nops + 1
    /\ loc' = [loc EXCEPT ![t] = [Loc0 EXCEPT !.op = op, !.message = message]]
    /\ pc' = [pc EXCEPT ![t] = "cmd_snap"]
    /\ UNCHANGED <<dxl, dxl_lock, connection_info, dxl_error_message, running,
                   telemetry_thread, sessions>>

StartSetOperatingMode(t) ==
    /\ pc[t] = "idle"
    /\ nops < MaxOps
    /\ \E message \in ModeMessages : StartCommand(t, "set_operating_mode", message)

StartSetGoals(t) ==
    /\ pc[t] = "idle"
    /\ nops < MaxOps
    /\ \E message \in GoalMessages : StartCommand(t, "set_goals", message)

StartSetPid(t) ==
    /\ pc[t] = "idle"
    /\ nops < MaxOps
    /\ \E message \in PidMessages : StartCommand(t, "set_pid", message)

\* handle_set_torque's message: {"id", "enable"}
TorqueMessages == { [id |-> d, enable |-> e] : d \in CommandIds, e \in BOOLEAN }

\* set_torque: _write1(dxl_id, ADDR_TORQUE_ENABLE, 1 if enable else 0)
TorqueWrites(dxl_id, enable) ==
    << RegWrite(dxl_id, ADDR_TORQUE_ENABLE, 1, IF enable THEN 1 ELSE 0, FALSE) >>

\* handle_set_torque with its message
StartSetTorqueCommand(t) ==
    /\ pc[t] = "idle"
    /\ nops < MaxOps
    /\ \E message \in TorqueMessages : StartCommand(t, "set_torque", message)

\* with dxl_lock: controller = dxl; if controller is None: emit backend_error
CommandController(t) ==
    /\ pc[t] = "cmd_snap"
    /\ UNCHANGED nops
    /\ dxl_lock = NoThread
    /\ IF dxl /= NoSession
          THEN /\ loc' = [loc EXCEPT ![t].controller = dxl]
               /\ pc' = [pc EXCEPT ![t] = "cmd_call"]
          ELSE /\ loc' = [loc EXCEPT ![t].err = "Not connected to any Dynamixel bus.",
                                     ![t].reply = "backend_error"]
               /\ pc' = [pc EXCEPT ![t] = "ret"]
    /\ UNCHANGED <<dxl, dxl_lock, connection_info, dxl_error_message, running,
                   telemetry_thread, sessions>>

\* the writes of the controller method the handler calls.  DynamixelController
\* has no set_position_pid_gains and no set_velocity_pi_gains: handle_set_pid's
\* call raises AttributeError, which its "except DynamixelError" lets through
CommandCall(t) ==
    /\ pc[t] = "cmd_call"
    /\ UNCHANGED nops
    /\ LET message == loc[t].message
           writes == IF loc[t].op = "set_operating_mode"
                        THEN ModeWrites(message.id, message.mode, AutoTorque(message))
                     ELSE IF loc[t].op = "set_goals"
                        THEN GoalWrites(message.id, GoalKwargs(message))
                     ELSE IF loc[t].op = "set_torque"
                        THEN TorqueWrites(message.id, message.enable)
                     ELSE << >>
       IN  IF loc[t].op = "set_pid"
              THEN /\ loc' = [loc EXCEPT ![t].ok = FALSE, ![t].msg = "AttributeError"]
                   /\ pc' = [pc EXCEPT ![t] = "ret"]
           ELSE IF writes = << >>
              THEN /\ loc' = [loc EXCEPT ![t].ok = TRUE, ![t].reply = "log_info"]
                   /\ pc' = [pc EXCEPT ![t] = "ret"]
           ELSE /\ loc' = [loc EXCEPT ![t].writes = writes, ![t].k = 1]
                /\ pc' = [pc EXCEPT ![t] = "cmd_wr_b"]
    /\ UNCHANGED <<dxl, dxl_lock, connection_info, dxl_error_message, running,
                   telemetry_thread, sessions>>

\* _writeN: with self.lock: the exchange is entered
CommandWriteBegin(t) ==
    /\ pc[t] = "cmd_wr_b"
    /\ UNCHANGED nops
    /\ SessionLockFree(loc[t].controller)
    /\ BeginExchange(t, loc[t].controller)
    /\ pc' = [pc EXCEPT ![t] = "cmd_wr_e"]
    /\ UNCHANGED <<dxl, dxl_lock, connection_info, dxl_error_message, running,
                   telemetry_thread, loc>>

\* the exchange returns.  "ok": the next write, or the success log after the
\* last one; "error": a DynamixelError, passed over where the method ignores it
\* and logged by the handler otherwise; "raise": an exception of the transport,
\* which neither the method nor the handler catches
CommandWriteEnd(t) ==
    /\ pc[t] = "cmd_wr_e"
    /\ UNCHANGED nops
    /\ \E outcome \in ExchangeOutcomes(loc[t].controller) :
          LET w == loc[t].writes[loc[t].k]
              sent == [id |-> w.id, addr |-> w.addr, data |-> Wire(w.width, w.value),
                       result |-> outcome]
              goes_on == outcome = "ok" \/ (outcome = "error" /\ w.tolerated)
              last == loc[t].k = Len(loc[t].writes)
          IN  /\ EndExchange(t, loc[t].controller)
              /\ loc' = [loc EXCEPT ![t].wire = Append(@, sent),
                                    ![t].k = IF goes_on /\ ~last THEN @ + 1 ELSE @,
                                    ![t].ok = goes_on /\ last,
                                    ![t].msg = outcome,
                                    ![t].reply = IF goes_on /\ last THEN "log_info"
                                                 ELSE IF outcome = "error" /\ ~w.tolerated
                                                    THEN "log_error"
                                                 ELSE "none"]
              /\ pc' = [pc EXCEPT ![t] = IF goes_on /\ ~last THEN "cmd_wr_b" ELSE "ret"]
    /\ UNCHANGED <<dxl, dxl_lock, connection_info, dxl_error_message, running,
                   telemetry_thread>>

----------------------------------------------------------------------------
(* The scan: handle_scan_servos *)

\* the thread that runs the scans, the ids a scan may name, and the port
ScanThread == "h1"
MaxScanId == 3
ScanIds == 0..MaxScanId

\* a value that int() rejects, such as "abc"
NotANumber == -2

\* config.py: the default baud rate, and the default scan bounds, which may be
\* any range of more than one id
DEFAULT_BAUDRATE == 57600
ScanDefaults ==
    { d \in [SCAN_ID_MIN : ScanIds, SCAN_ID_MAX : ScanIds] : d.SCAN_ID_MIN < d.SCAN_ID_MAX }

ScanRaw == {NoValue, NotANumber} \cup ScanIds

\* {"port"} and any of "idMin", "idMax", "baudrate"; or no port
ScanMessages ==
    UNION { { ("port" :> "COM3") @@ g :
                 g \in [K -> ScanRaw] } : K \in SUBSET {"idMin", "idMax"} }
    \cup { [port |-> "COM3", baudrate |-> b] : b \in {1000000, NotANumber} }
    \cup { [port |-> ""], [idMin |-> 1, idMax |-> 2] }

\* message.get(key) or default: the default stands in for a missing key and for
\* every falsy value, 0 included
OrDefault(message, key, default) ==
    IF key \notin DOMAIN message THEN default
    ELSE IF message[key] = NoValue \/ message[key] = 0 THEN default
    ELSE message[key]

\* try: baudrate = int(... or DEFAULT_BAUDRATE) except: baudrate = DEFAULT_BAUDRATE
ScanBaudrate(message) ==
    LET v == OrDefault(message, "baudrate", DEFAULT_BAUDRATE)
    IN  IF v = NotANumber THEN DEFAULT_BAUDRATE ELSE v

\* try: id_min = int(... or SCAN_ID_MIN); id_max = int(... or SCAN_ID_MAX)
\* except (TypeError, ValueError): id_min, id_max = SCAN_ID_MIN, SCAN_ID_MAX
ScanBounds(message, cfg) ==
    LET a == OrDefault(message, "idMin", cfg.SCAN_ID_MIN)
        b == OrDefault(message, "idMax", cfg.SCAN_ID_MAX)
    IN  IF a = NotANumber \/ b = NotANumber
           THEN <<cfg.SCAN_ID_MIN, cfg.SCAN_ID_MAX>>
           ELSE <<a, b>>

\* if id_min > id_max: id_min, id_max = id_max, id_min
ScanRange(bounds) ==
    IF bounds[1] > bounds[2] THEN <<bounds[2], bounds[1]>> ELSE bounds

\* what a ping can do: the device answers; the result is not COMM_SUCCESS or
\* carries an error (a timeout, a fault); the transport raises
PingOutcomes == {"respond", "no_reply", "raise"}

\* faulty variant: an exception of a ping ends the sweep ("break")
NextIdBreak(dxl_id, id_max, outcome) == IF outcome = "raise" THEN id_max + 1 ELSE dxl_id + 1

\* for dxl_id in range(id_min, id_max + 1): ... except Exception: continue
NextId(dxl_id, id_max, outcome) == dxl_id + 1

\* faulty variant: closePort() is called at the end of the sweep only
PortAfterFinallyOnSuccess(port_handler, ok) ==
    IF ok /\ port_handler = "open" THEN "closed" ELSE port_handler

\* finally: port_handler.closePort(), whatever the try block did
PortAfterFinally(port_handler, ok) == IF port_handler = "open" THEN "closed" ELSE port_handler

StartScan(t) ==
    /\ pc[t] = "idle"
    /\ nops < MaxOps
    /\ nops' = nops + 1
    /\ \E message \in ScanMessages, cfg \in ScanDefaults :
          loc' = [loc EXCEPT ![t] = [Loc0 EXCEPT !.op = "scan_servos",
                                                 !.message = message, !.cfg = cfg]]
    /\ pc' = [pc EXCEPT ![t] = "sc_args"]
    /\ UNCHANGED <<dxl, dxl_lock, connection_info, dxl_error_message, running,
                   telemetry_thread, sessions>>

\* port = message.get("port"); if not port: emit failure; the numeric inputs;
\* port_handler = PortHandler(port)
ScanArguments(t) ==
    /\ pc[t] = "sc_args"
    /\ UNCHANGED nops
    /\ LET message == loc[t].message
           range == ScanRange(ScanBounds(message, loc[t].cfg))
       IN  IF "port" \notin DOMAIN message \/ message.port = ""
              THEN /\ loc' = [loc EXCEPT ![t].ok = FALSE, ![t].msg = "No port specified.",
                                         ![t].reply = "scan_result"]
                   /\ pc' = [pc EXCEPT ![t] = "ret"]
              ELSE /\ loc' = [loc EXCEPT ![t].baudrate = ScanBaudrate(message),
                                         ![t].id_min = range[1], ![t].id_max = range[2],
                                         ![t].port_handler = "new"]
                   /\ pc' = [pc EXCEPT ![t] = "sc_open"]
    /\ UNCHANGED <<dxl, dxl_lock, connection_info, dxl_error_message, running,
                   telemetry_thread, sessions>>

\* if not port_handler.openPort(): emit failure; return (through finally)
ScanOpen(t) ==
    /\ pc[t] = "sc_open"
    /\ UNCHANGED nops
    /\ \/ /\ loc' = [loc EXCEPT ![t].port_handler = "open", ![t].ios = @ + 1]
          /\ pc' = [pc EXCEPT ![t] = "sc_baud"]
       \/ /\ loc' = [loc EXCEPT ![t].ok = FALSE, ![t].msg = "Failed to open port",
                                ![t].reply = "scan_result", ![t].ios = @ + 1]
          /\ pc' = [pc EXCEPT ![t] = "sc_finally"]
    /\ UNCHANGED <<dxl, dxl_lock, connection_info, dxl_error_message, running,
                   telemetry_thread, sessions>>

\* if not port_handler.setBaudRate(baudrate): emit failure; return (through finally)
ScanBaud(t) ==
    /\ pc[t] = "sc_baud"
    /\ UNCHANGED nops
    /\ \/ /\ loc' = [loc EXCEPT ![t].dxl_id = loc[t].id_min, ![t].ios = @ + 1]
          /\ pc' = [pc EXCEPT ![t] = "sc_ping"]
       \/ /\ loc' = [loc EXCEPT ![t].ok = FALSE, ![t].msg = "Failed to set baudrate",
                                ![t].reply = "scan_result", ![t].ios = @ + 1]
          /\ pc' = [pc EXCEPT ![t] = "sc_finally"]
    /\ UNCHANGED <<dxl, dxl_lock, connection_info, dxl_error_message, running,
                   telemetry_thread, sessions>>

\* one turn of the sweep: packet_handler.ping(port_handler, dxl_id)
ScanPing(t) ==
    /\ pc[t] = "sc_ping"
    /\ UNCHANGED nops
    /\ loc[t].dxl_id <= loc[t].id_max
    /\ \E outcome \in PingOutcomes :
          LET n == NextId(loc[t].dxl_id, loc[t].id_max, outcome)
          IN  loc' = [loc EXCEPT
                        ![t].probes = Append(@, [id |-> loc[t].dxl_id, outcome |-> outcome]),
                        ![t].found_ids = IF outcome = "respond"
                                            THEN Append(@, loc[t].dxl_id) ELSE @,
                        ![t].dxl_id = n,
                        ![t].ios = @ + 1]
    /\ UNCHANGED <<dxl, dxl_lock, connection_info, dxl_error_message, running,
                   telemetry_thread, sessions, pc>>

\* the sweep is over: emit("scan_result", {ok: True, ids: found_ids, port,
\* baudrate, idMin: id_min, idMax: id_max})
ScanEmit(t) ==
    /\ pc[t] = "sc_ping"
    /\ UNCHANGED nops
    /\ loc[t].dxl_id > loc[t].id_max
    /\ loc' = [loc EXCEPT ![t].ok = TRUE,
                          ![t].msg = IF loc[t].found_ids = << >> THEN "No servos responded"
                                     ELSE "Found IDs",
                          ![t].reply = "scan_result"]
    /\ pc' = [pc EXCEPT ![t] = "sc_finally"]
    /\ UNCHANGED <<dxl, dxl_lock, connection_info, dxl_error_message, running,
                   telemetry_thread, sessions>>

\* finally: try: port_handler.closePort() except Exception: pass
ScanFinally(t) ==
    /\ pc[t] = "sc_finally"
    /\ UNCHANGED nops
    /\ loc' = [loc EXCEPT ![t].port_handler = PortAfterFinally(@, loc[t].ok),
                          ![t].ios = @ + 1]
    /\ pc' = [pc EXCEPT ![t] = "ret"]
    /\ UNCHANGED <<dxl, dxl_lock, connection_info, dxl_error_message, running,
                   telemetry_thread, sessions>>

----------------------------------------------------------------------------
(* handle_connect_servos: the checks made on the message before connecting *)

\* a message key that may be left out
Optional(key, values) == {[x \in {} |-> 0]} \cup {key :> v : v \in values}

\* {"port", "ids", "baudrate"}, each left out, empty, malformed or well-formed
ConnectMessages ==
    { p @@ i @@ b : p \in Optional("port", {"", "COM1"}),
                    i \in Optional("ids", {<< >>, <<1, 2>>, <<1, NotANumber>>}),
                    b \in Optional("baudrate", {NotANumber, 1000000}) }

\* not port / not ids
NoPort(message) == "port" \notin DOMAIN message \/ message.port = ""
NoIds(message) == "ids" \notin DOMAIN message \/ message.ids = << >>

\* connect_controller: ids = [int(i) for i in ids] raises ValueError
IdsRaise(ids) == \E k \in 1..Len(ids) : ids[k] = NotANumber

StartConnectServos(t) ==
    /\ pc[t] = "idle"
    /\ nops < MaxOps
    /\ nops' = nops + 1
    /\ Len(sessions) < MaxSessions
    /\ \E message \in ConnectMessages :
          loc' = [loc EXCEPT ![t] =
                    [Loc0 EXCEPT !.op = "connect_servos", !.message = message,
                                 !.before = [dxl |-> dxl, info |-> connection_info,
                                             err |-> dxl_error_message,
                                             sessions |-> sessions]]]
    /\ pc' = [pc EXCEPT ![t] = "cs_args"]
    /\ UNCHANGED <<dxl, dxl_lock, connection_info, dxl_error_message, running,
                   telemetry_thread, sessions>>

\* the two checks of the handler, each answered with a failed connect_result;
\* the baud rate, replaced by the default when it is not a number; then
\* connect_controller, whose first statement converts the ids outside any try
ConnectArguments(t) ==
    /\ pc[t] = "cs_args"
    /\ UNCHANGED nops
    /\ LET message == loc[t].message
       IN  IF NoPort(message) \/ NoIds(message)
              THEN /\ loc' = [loc EXCEPT ![t].ok = FALSE,
                                         ![t].msg = IF NoPort(message)
                                                       THEN "No port specified."
                                                       ELSE "No servo IDs selected.",
                                         ![t].connected = FALSE,
                                         ![t].info = connection_info,
                                         ![t].reply = "connect_result"]
                   /\ pc' = [pc EXCEPT ![t] = "ret"]
           ELSE IF IdsRaise(message.ids)
              THEN /\ loc' = [loc EXCEPT ![t].ok = FALSE, ![t].msg = "ValueError"]
                   /\ pc' = [pc EXCEPT ![t] = "ret"]
           ELSE /\ loc' = [loc EXCEPT ![t].req = [port |-> message.port,
                                                  baudrate |-> ScanBaudrate(message),
                                                  ids |-> message.ids]]
                /\ pc' = [pc EXCEPT ![t] = "cc_lock"]
    /\ UNCHANGED <<dxl, dxl_lock, connection_info, dxl_error_message, running,
                   telemetry_thread, sessions>>

----------------------------------------------------------------------------
(* A register written and read back: _writeN then _readN on one register *)

\* the values given to a write: every value up to MaxCodecSmall in size, and
\* the values around the limits of one, two and four bytes
MaxCodecSmall == 300
CodecValues ==
    (-MaxCodecSmall..MaxCodecSmall)
    \cup { s * (b + d) : s \in {-1, 1}, b \in {32768, 65536, 16777216, 2147483646},
                         d \in {-1, 0, 1} }
    \cup { -2147483647 - 1 }

CodecWidths == {1, 2, 4}

\* a thread about to write value to a register of the given width
InitCodec ==
    /\ dxl = NoSession
    /\ dxl_lock = NoThread
    /\ connection_info = EmptyInfo
    /\ dxl_error_message = NoError
    /\ running = TRUE
    /\ telemetry_thread = FALSE
    /\ sessions = <<>>
    /\ nops = 0
    /\ \E width \in CodecWidths, value \in CodecValues :
          /\ pc = [t \in Threads |-> IF t = Tel THEN "tl_idle"
                                     ELSE IF t = CommandThread THEN "cx_write" ELSE "idle"]
          /\ loc = [t \in Threads |->
                      IF t = CommandThread
                         THEN [Loc0 EXCEPT !.op = "codec",
                                           !.message = [width |-> width, value |-> value]]
                         ELSE Loc0]

\* _writeN(dxl_id, addr, value): the register receives the bytes of the masked value
CodecWrite(t) ==
    /\ pc[t] = "cx_write"
    /\ loc' = [loc EXCEPT ![t].bytes = Wire(loc[t].message.width, loc[t].message.value)]
    /\ pc' = [pc EXCEPT ![t] = "cx_read"]
    /\ UNCHANGED <<dxl, dxl_lock, connection_info, dxl_error_message, running,
                   telemetry_thread, sessions, nops>>

\* _readN(dxl_id, addr): the bytes of the register, decoded
CodecRead(t) ==
    /\ pc[t] = "cx_read"
    /\ loc' = [loc EXCEPT ![t].value = Read(loc[t].message.width, loc[t].bytes)]
    /\ pc' = [pc EXCEPT ![t] = "cx_done"]
    /\ UNCHANGED <<dxl, dxl_lock, connection_info, dxl_error_message, running,
                   telemetry_thread, sessions, nops>>

----------------------------------------------------------------------------

Next ==
    \/ TelWhile
    \/ TelSnapshot
    \/ ReadBegin
    \/ ReadEnd
    \/ TelEmit
    \/ \E t \in Handlers :
          \/ StartConnect(t)
          \/ ConnectLock(t)
          \/ ConnectCloseBegin(t)
          \/ ConnectCloseEnd(t)
          \/ ConnectOpen(t)
          \/ ConnectBaud(t)
          \/ ConnectPingBegin(t)
          \/ ConnectPingEnd(t)
          \/ ConnectInstall(t)
          \/ ConnectUnlock(t)
          \/ ConnectEmit(t)
          \/ StartDisconnect(t)
          \/ StartShutdown(t)
          \/ DisconnectLock(t)
          \/ DisconnectCloseBegin(t)
          \/ DisconnectCloseEnd(t)
          \/ DisconnectReset(t)
          \/ DisconnectUnlock(t)
          \/ DisconnectEmit(t)
          \/ StartStatus(t)
          \/ StatusReadOk(t)
          \/ StatusReadMessage(t)
          \/ StatusReadConnected(t)
          \/ StatusReadInfo(t)
          \/ StatusReadError(t)
          \/ StartSetTorque(t)
          \/ CommandSnapshot(t)
          \/ WriteBegin(t)
          \/ WriteEnd(t)
          \/ Return(t)

Spec == Init /\ [][Next]_vars

\* The commands on their own: one thread connects and issues commands while
\* the other disconnects; the telemetry task is not started
NextCommands ==
    \/ StartSetOperatingMode(CommandThread)
    \/ StartSetGoals(CommandThread)
    \/ StartSetPid(CommandThread)
    \/ CommandController(CommandThread)
    \/ CommandCall(CommandThread)
    \/ CommandWriteBegin(CommandThread)
    \/ CommandWriteEnd(CommandThread)
    \/ StartConnect(CommandThread)
    \/ ConnectLock(CommandThread)
    \/ ConnectCloseBegin(CommandThread)
    \/ ConnectCloseEnd(CommandThread)
    \/ ConnectOpen(CommandThread)
    \/ ConnectBaud(CommandThread)
    \/ ConnectPingBegin(CommandThread)
    \/ ConnectPingEnd(CommandThread)
    \/ ConnectInstall(CommandThread)
    \/ ConnectUnlock(CommandThread)
    \/ ConnectEmit(CommandThread)
    \/ \E t \in Handlers \ {CommandThread} :
          \/ StartDisconnect(t)
          \/ DisconnectLock(t)
          \/ DisconnectCloseBegin(t)
          \/ DisconnectCloseEnd(t)
          \/ DisconnectReset(t)
          \/ DisconnectUnlock(t)
          \/ DisconnectEmit(t)
    \/ \E t \in Handlers : Return(t)

SpecCommands == Init /\ [][NextCommands]_vars

\* The scan on its own, started with no session or with a session that a
\* connect installed; the telemetry task is not started
InitScan ==
    /\ \/ /\ dxl = NoSession
          /\ connection_info = EmptyInfo
          /\ sessions = <<>>
       \/ \E req \in Requests :
             /\ dxl = 1
             /\ connection_info = InstalledInfo(req)
             /\ sessions = << NewSession(req) >>
    /\ dxl_lock = NoThread
    /\ dxl_error_message = NoError
    /\ running = TRUE
    /\ telemetry_thread = FALSE
    /\ pc = [t \in Threads |-> IF t = Tel THEN "tl_idle" ELSE "idle"]
    /\ loc = [t \in Threads |-> Loc0]
    /\ nops = 0

NextScan ==
    \/ StartScan(ScanThread)
    \/ ScanArguments(ScanThread)
    \/ ScanOpen(ScanThread)
    \/ ScanBaud(ScanThread)
    \/ ScanPing(ScanThread)
    \/ ScanEmit(ScanThread)
    \/ ScanFinally(ScanThread)
    \/ Return(ScanThread)

SpecScan == InitScan /\ [][NextScan]_vars

\* Connect requests of every shape, one after the other
NextConnectInput ==
    \E t \in {CommandThread} :
       \/ StartConnectServos(t)
       \/ ConnectArguments(t)
       \/ ConnectLock(t)
       \/ ConnectCloseBegin(t)
       \/ ConnectCloseEnd(t)
       \/ ConnectOpen(t)
       \/ ConnectBaud(t)
       \/ ConnectPingBegin(t)
       \/ ConnectPingEnd(t)
       \/ ConnectInstall(t)
       \/ ConnectUnlock(t)
       \/ ConnectEmit(t)
       \/ Return(t)

SpecConnectInput == Init /\ [][NextConnectInput]_vars

\* two handler threads send set_operating_mode and set_torque to the session
\* a connect installed; the telemetry loop, which writes nothing, is between
\* two cycles
InitCommandRace ==
    /\ \E req \in Requests :
          /\ dxl = 1
          /\ connection_info = InstalledInfo(req)
          /\ sessions = << NewSession(req) >>
    /\ dxl_lock = NoThread
    /\ dxl_error_message = NoError
    /\ running = TRUE
    /\ telemetry_thread = TRUE
    /\ pc = [t \in Threads |-> IF t = Tel THEN "tl_while" ELSE "idle"]
    /\ loc = [t \in Threads |-> Loc0]
    /\ nops = 0

NextCommandRace ==
    \E t \in Handlers :
          \/ StartSetOperatingMode(t)
          \/ StartSetTorqueCommand(t)
          \/ CommandController(t)
          \/ CommandCall(t)
          \/ CommandWriteBegin(t)
          \/ CommandWriteEnd(t)
          \/ Return(t)

SpecCommandRace == InitCommandRace /\ [][NextCommandRace]_vars

NextCodec ==
    \/ CodecWrite(CommandThread)
    \/ CodecRead(CommandThread)

SpecCodec == InitCodec /\ [][NextCodec]_vars

----------------------------------------------------------------------------
(* Properties *)

Range(seq) == {seq[k] : k \in 1..Len(seq)}

SessionIds == 1..Len(sessions)

OpenFailures == {"Failed to open port", "Failed to set baudrate"}

\* the state of a device all of whose fields were read
NormalState == [keys |-> AllKeys, error |-> NoError]

\* C1: a connect that opens session B while session A is active ends (at the
\* point where connect_controller leaves its lock) with exactly B installed,
\* the metadata equal to B's port, baud rate and ids, the last error cleared
\* and A's transport closed; and a connect fails only because the port could
\* not be opened or its baud rate not be set, never because A was active.
C1_ConnectReplaces ==
    \A t \in Handlers :
        pc[t] = "cc_unlock" =>
            IF loc[t].ok
               THEN /\ dxl = loc[t].controller
                    /\ dxl \in SessionIds
                    /\ sessions[dxl].port = "open"
                    /\ sessions[dxl].port_name = loc[t].req.port
                    /\ sessions[dxl].baudrate = loc[t].req.baudrate
                    /\ sessions[dxl].ids = loc[t].req.ids
                    /\ connection_info = [port |-> loc[t].req.port,
                                          baudrate |-> loc[t].req.baudrate,
                                          ids |-> loc[t].req.ids]
                    /\ dxl_error_message = NoError
                    /\ loc[t].prev /= dxl
                    /\ loc[t].prev /= NoSession =>
                           /\ sessions[loc[t].prev].port = "closed"
                           /\ sessions[loc[t].prev].closes = 1
               ELSE loc[t].msg \in OpenFailures

\* a connect to B has just replaced an active session A with other metadata
C1_Witness ==
    \E t \in Handlers :
        /\ pc[t] = "cc_unlock"
        /\ loc[t].ok
        /\ loc[t].prev /= NoSession
        /\ dxl /= loc[t].prev
        /\ sessions[loc[t].prev].port_name /= sessions[dxl].port_name
        /\ sessions[loc[t].prev].port = "closed"

\* a session that the connection manager holds or is still constructing
Owned(s) ==
    \/ dxl = s
    \/ \E t \in Handlers :
          /\ pc[t] \in {"cc_baud", "cc_ping_b", "cc_ping_e", "cc_install"}
          /\ loc[t].controller = s

\* C2: the transport of every session whose port was opened is closed exactly
\* once: never twice, and once the session is no longer held by the connection
\* manager (replaced, disconnected, or its construction failed) it has been
\* closed.
C2_ClosedExactlyOnce ==
    \A s \in SessionIds :
        /\ sessions[s].closes <= 1
        /\ ~Owned(s) => sessions[s].port = "closed" /\ sessions[s].closes = 1

\* a thread that is inside a transport operation (exchange, probe or close)
PerformingIO(t) == \E s \in SessionIds : t \in sessions[s].inflight

\* C3: no thread holds the connection lock while it performs a transport
\* operation.
C3_NoIOUnderConnectionLock ==
    \A t \in Threads : PerformingIO(t) => dxl_lock /= t

\* C4: on one session at most one transport operation (exchange, probe or
\* close) is in flight, and the thread performing it holds the session's lock.
C4_OneExchangeAtATime ==
    \A s \in SessionIds :
        /\ Cardinality(sessions[s].inflight) <= 1
        /\ \A t \in sessions[s].inflight : sessions[s].lock = t

\* the telemetry loop is inside a read on a session while a handler waits for
\* that session's lock to write to it or to close it
C4_Witness ==
    \E t \in Handlers :
        /\ loc[Tel].controller /= NoSession
        /\ pc[Tel] = "rs_end"
        /\ sessions[loc[Tel].controller].inflight = {Tel}
        /\ \/ pc[t] = "st_begin" /\ loc[t].controller = loc[Tel].controller
           \/ pc[t] \in {"cc_close_b", "dc_close_b"} /\ dxl = loc[Tel].controller

\* C5: the connect_result a handler sends is a consistent snapshot of the
\* context: the status report of handle_connect never pairs a "connected"
\* flag with the metadata of no session, nor an "ok" with another "connected",
\* and a successful connect never reports the metadata of no session.
C5_ConsistentSnapshot ==
    \A t \in Handlers :
        /\ pc[t] = "hc_err" =>
              /\ loc[t].ok = loc[t].connected
              /\ loc[t].connected => loc[t].info /= EmptyInfo
        /\ (pc[t] = "ret" /\ loc[t].op = "connect_servos" /\ loc[t].connected) =>
              loc[t].info /= EmptyInfo

\* C6: a connect that fails to open the new session ends with no active
\* session, the previously active one closed, the failure message recorded as
\* last error and ok = false; a connect that succeeds ends with the last error
\* cleared.
C6_FailedConnect ==
    \A t \in Handlers :
        pc[t] = "cc_unlock" =>
            IF loc[t].ok
               THEN dxl_error_message = NoError
               ELSE /\ dxl = NoSession
                    /\ loc[t].msg \in OpenFailures
                    /\ dxl_error_message = loc[t].msg
                    /\ loc[t].prev /= NoSession =>
                           sessions[loc[t].prev].port = "closed"

\* a connect has failed after closing the session that was active
C6_Witness ==
    \E t \in Handlers :
        /\ pc[t] = "cc_unlock"
        /\ ~loc[t].ok
        /\ loc[t].prev /= NoSession
        /\ dxl_error_message \in OpenFailures

\* C7: disconnect ends (at the point where disconnect_controller leaves its
\* lock) with no active session and empty metadata, the session that was
\* active closed; when nothing was connected it performs no transport
\* operation; and handle_disconnect_servos then answers ok = true.
C7_DisconnectIdempotent ==
    \A t \in Handlers :
        /\ pc[t] = "dc_unlock" =>
              /\ dxl = NoSession
              /\ connection_info = EmptyInfo
              /\ IF loc[t].controller = NoSession
                    THEN loc[t].ios = 0 /\ loc[t].prev = NoSession
                    ELSE /\ loc[t].ios = 1
                         /\ loc[t].prev = loc[t].controller
                         /\ sessions[loc[t].prev].port = "closed"
        /\ (pc[t] = "ret" /\ loc[t].op = "disconnect_servos") =>
              loc[t].ok /\ ~loc[t].connected

\* a second disconnect in a row: the only session was closed by a disconnect
\* (no connect failed), and nothing was connected when this one started
C7_Witness ==
    \E t \in Handlers :
        /\ pc[t] = "dc_unlock"
        /\ loc[t].controller = NoSession
        /\ Len(sessions) = 1
        /\ sessions[1].closes = 1
        /\ dxl_error_message = NoError

\* C8: the map of a poll cycle taken against a session has exactly one entry
\* per configured device id; the entry of a device whose read failed is an
\* error state, and the entry of every other device is a normal state.
C8_FaultIsolation ==
    (pc[Tel] = "tl_emit" /\ loc[Tel].controller /= NoSession) =>
        LET ids  == sessions[loc[Tel].controller].ids
            data == loc[Tel].data
        IN  /\ DOMAIN data = Range(ids)
            /\ \A id \in Range(ids) :
                  IF id \in loc[Tel].faulted
                     THEN data[id].error /= NoError
                     ELSE data[id] = NormalState

\* a cycle in which the first device of the list failed and the second, read
\* after it, is healthy
C8_Witness ==
    /\ pc[Tel] = "tl_emit"
    /\ loc[Tel].controller /= NoSession
    /\ Len(sessions[loc[Tel].controller].ids) = 2
    /\ loc[Tel].faulted = {sessions[loc[Tel].controller].ids[1]}
    /\ loc[Tel].data[sessions[loc[Tel].controller].ids[2]] = NormalState

\* C9: a device state that holds an error holds nothing else: none of the
\* fields that were read before the failure.
C9_ErrorOnlyState ==
    \A id \in DOMAIN loc[Tel].data :
        loc[Tel].data[id].error /= NoError => loc[Tel].data[id].keys = {}

\* C10: the telemetry loop, once started, has ended only if the process was
\* shut down (running = False).
C10_LoopEndsOnlyOnShutdown ==
    pc[Tel] \in {"tl_exit", "tl_dead"} => ~running


----------------------------------------------------------------------------
(* Properties of the foreground commands (SpecCommands) *)

\* the exchanges a call has issued, without their results
Issued(t) ==
    [k \in 1..Len(loc[t].wire) |->
        [id |-> loc[t].wire[k].id, addr |-> loc[t].wire[k].addr,
         data |-> loc[t].wire[k].data]]

IsPrefix(s1, s2) == Len(s1) <= Len(s2) /\ \A k \in 1..Len(s1) : s1[k] = s2[k]

\* C11: a set_operating_mode call with autoTorque (given true or left out)
\* issues, to the device it names, torque-disable, then mode-write, then
\* torque-enable, and nothing else, in that order; without autoTorque only the
\* mode-write.  A fault reported by the torque-disable does not stop the call:
\* when the later exchanges succeed all three are issued and success is logged.
\* The call ends early, without the success log, only when the mode-write or
\* the torque-enable fails or the transport raises.
C11_ModeWriteSequence ==
    \A t \in Handlers :
       loc[t].op = "set_operating_mode" =>
          LET m == loc[t].message
              auto == IF "autoTorque" \in DOMAIN m THEN m.autoTorque ELSE TRUE
              mode_write == [id |-> m.id, addr |-> ADDR_OPERATING_MODE, data |-> <<m.mode>>]
              expected ==
                 IF auto
                    THEN << [id |-> m.id, addr |-> ADDR_TORQUE_ENABLE, data |-> <<0>>],
                            mode_write,
                            [id |-> m.id, addr |-> ADDR_TORQUE_ENABLE, data |-> <<1>>] >>
                    ELSE << mode_write >>
              accepted ==
                 \A k \in 1..Len(loc[t].wire) :
                    \/ loc[t].wire[k].result = "ok"
                    \/ auto /\ k = 1 /\ loc[t].wire[k].result = "error"
          IN  /\ IsPrefix(Issued(t), expected)
              /\ (pc[t] = "ret" /\ loc[t].controller /= NoSession) =>
                    IF accepted
                       THEN Issued(t) = expected /\ loc[t].reply = "log_info"
                       ELSE loc[t].reply /= "log_info"

\* a call that logged success although its torque-disable reported a fault
C11_Witness ==
    \E t \in Handlers :
       /\ pc[t] = "ret"
       /\ loc[t].op = "set_operating_mode"
       /\ loc[t].reply = "log_info"
       /\ Len(loc[t].wire) = 3
       /\ loc[t].wire[1].result = "error"

\* the goal fields in the order in which they are to be written
GoalOrder ==
    << [key |-> "profileAccel",    addr |-> ADDR_PROFILE_ACCEL,    width |-> 4],
       [key |-> "profileVelocity", addr |-> ADDR_PROFILE_VELOCITY, width |-> 4],
       [key |-> "goalPwm",         addr |-> ADDR_GOAL_PWM,         width |-> 2],
       [key |-> "goalCurrent",     addr |-> ADDR_GOAL_CURRENT,     width |-> 2],
       [key |-> "goalVelocity",    addr |-> ADDR_GOAL_VELOCITY,    width |-> 4],
       [key |-> "goalPosition",    addr |-> ADDR_GOAL_POSITION,    width |-> 4] >>

\* C12: a set_goals call writes the goal fields that the request gives a value
\* (a field left out or left empty is absent; a value of 0 is a value), never
\* another one, in the order profile acceleration, profile velocity, PWM,
\* current, velocity, position, whatever subset is given: the writes issued are
\* always a prefix of that list, and the call logs success, with the whole list
\* written, exactly when no write failed.
C12_GoalWriteOrder ==
    \A t \in Handlers :
       (loc[t].op = "set_goals" /\ loc[t].controller /= NoSession) =>
          LET m == loc[t].message
              present(g) == g.key \in DOMAIN m /\ m[g.key] /= NoValue
              given == SelectSeq(GoalOrder, present)
              expected ==
                 [k \in 1..Len(given) |->
                    [id |-> m.id, addr |-> given[k].addr,
                     data |-> [b \in 1..given[k].width |->
                                 IF b = 1 THEN m[given[k].key] ELSE 0]]]
              accepted == \A k \in 1..Len(loc[t].wire) : loc[t].wire[k].result = "ok"
          IN  /\ IsPrefix(Issued(t), expected)
              /\ pc[t] = "ret" =>
                    IF accepted
                       THEN Issued(t) = expected /\ loc[t].reply = "log_info"
                       ELSE loc[t].reply /= "log_info"

\* a call that wrote a goal of 0 and a later goal, one field being absent
C12_Witness ==
    \E t \in Handlers :
       /\ pc[t] = "ret"
       /\ loc[t].op = "set_goals"
       /\ loc[t].reply = "log_info"
       /\ "goalPwm" \notin DOMAIN loc[t].message
       /\ Len(loc[t].wire) = 5
       /\ loc[t].wire[1].data = <<0, 0, 0, 0>>
       /\ loc[t].wire[5].addr = ADDR_GOAL_POSITION

\* C13: a set_pid call issued while a session is active ends either with the
\* gains present in the request written, and no other, and success logged, or
\* with an error message logged for the client; it never ends without either.
C13_PidOutcomeReported ==
    \A t \in Handlers :
       (pc[t] = "ret" /\ loc[t].op = "set_pid" /\ loc[t].controller /= NoSession) =>
          \/ /\ loc[t].reply = "log_info"
             /\ Len(loc[t].wire) = Cardinality(DOMAIN loc[t].message \ {"id"})
          \/ loc[t].reply = "log_error"

----------------------------------------------------------------------------
(* Properties of the scan (SpecScan) *)

\* the ids of the range of a scan, in ascending order
SweptIds(t) == [k \in 1..(loc[t].id_max - loc[t].id_min + 1) |-> loc[t].id_min + k - 1]

Responded(t, d) ==
    \E k \in 1..Len(loc[t].probes) :
       loc[t].probes[k].id = d /\ loc[t].probes[k].outcome = "respond"

\* C14: a scan whose port was opened and configured probes every id of its
\* range exactly once, in ascending order, and reports exactly the ids that
\* answered, in ascending order, whatever the probes of the other ids did
\* (no reply, fault, exception): no probe ends the sweep, and the sweep always
\* ends in a reported result.
C14_SweepNeverAborts ==
    \A t \in Handlers :
       loc[t].op = "scan_servos" =>
          /\ (loc[t].reply = "scan_result" /\ loc[t].ok) =>
                /\ Len(loc[t].probes) = Len(SweptIds(t))
                /\ \A k \in 1..Len(loc[t].probes) : loc[t].probes[k].id = SweptIds(t)[k]
                /\ loc[t].found_ids = SelectSeq(SweptIds(t), LAMBDA d : Responded(t, d))
          /\ (pc[t] = "ret" /\ loc[t].probes /= << >>) =>
                (loc[t].reply = "scan_result" /\ loc[t].ok)

\* a reported sweep of four ids: the first probe raised, the third got no
\* reply, the two others answered
C14_Witness ==
    \E t \in Handlers :
       /\ loc[t].op = "scan_servos"
       /\ loc[t].reply = "scan_result"
       /\ loc[t].ok
       /\ Len(loc[t].probes) = 4
       /\ loc[t].probes[1].outcome = "raise"
       /\ loc[t].probes[3].outcome = "no_reply"
       /\ Len(loc[t].found_ids) = 2
       /\ loc[t].found_ids[2] = loc[t].id_max

\* a step of a scan handler
ScanStep == \E t \in Handlers : loc[t].op = "scan_servos" \/ loc'[t].op = "scan_servos"

\* C15: when a scan handler returns, the transport it opened is closed,
\* whatever the outcome (no port given, open failure, baud-rate failure, a
\* raising probe, nothing found, devices found); and no step of a scan changes
\* the connection manager's active session, its lock, its metadata, its last
\* error or any bus session.
C15_ScanClosesItsTransport ==
    /\ [](\A t \in Handlers :
            (loc[t].op = "scan_servos" /\ pc[t] = "ret") => loc[t].port_handler /= "open")
    /\ [][ScanStep => UNCHANGED <<dxl, dxl_lock, connection_info, dxl_error_message,
                                  sessions>>]_vars

\* a scan that returns after the baud rate could not be set, its port closed,
\* while a session is active
C15_Witness ==
    \E t \in Handlers :
       /\ loc[t].op = "scan_servos"
       /\ pc[t] = "ret"
       /\ loc[t].msg = "Failed to set baudrate"
       /\ loc[t].port_handler = "closed"
       /\ dxl /= NoSession
       /\ sessions[dxl].port = "open"

\* the scan has taken its numeric inputs
ScanHasRange(t) == loc[t].op = "scan_servos" /\ loc[t].port_handler /= "none"

Supplied(message, key) == key \in DOMAIN message /\ message[key] \in ScanIds

\* C16: a scan given idMin = a and idMax = b with a > b sweeps and reports the
\* range that the scan given idMin = b and idMax = a sweeps and reports (the
\* probes and the ids found being those of that range).
C16_InvertedRangeSameAsOrdered ==
    \A t \in Handlers :
       LET m == loc[t].message
       IN  (/\ ScanHasRange(t)
            /\ Supplied(m, "idMin")
            /\ Supplied(m, "idMax")
            /\ m.idMin > m.idMax) =>
              LET swapped == [m EXCEPT !.idMin = m.idMax, !.idMax = m.idMin]
              IN  <<loc[t].id_min, loc[t].id_max>>
                     = ScanRange(ScanBounds(swapped, loc[t].cfg))

\* C19: every idMin and idMax that the caller supplies as an id, 0 included, is
\* a bound of the range that the scan sweeps and reports; with both supplied
\* the range is the one they span.  A default is used only for an input that
\* is missing or not a number.
C19_SuppliedBoundsUsed ==
    \A t \in Handlers :
       LET m == loc[t].message
       IN  ScanHasRange(t) =>
              /\ \A key \in {"idMin", "idMax"} :
                    Supplied(m, key) => m[key] \in {loc[t].id_min, loc[t].id_max}
              /\ (Supplied(m, "idMin") /\ Supplied(m, "idMax")) =>
                    {m.idMin, m.idMax} = {loc[t].id_min, loc[t].id_max}

----------------------------------------------------------------------------
(* Properties of the connect request (SpecConnectInput) *)

\* a connect message with no port, no ids, an id that is not a number or a
\* baud rate that is not a number
Malformed(message) ==
    \/ NoPort(message)
    \/ NoIds(message)
    \/ \E k \in 1..Len(message.ids) : message.ids[k] = NotANumber
    \/ "baudrate" \in DOMAIN message /\ message.baudrate = NotANumber

\* C17: a connect request with malformed input is answered with a failed
\* connect result, and the handler has then opened and closed no transport and
\* left the active session, the metadata and the last error as they were.
C17_MalformedConnectRejected ==
    \A t \in Handlers :
       (/\ pc[t] = "ret"
        /\ loc[t].op = "connect_servos"
        /\ loc[t].before /= << >>
        /\ Malformed(loc[t].message)) =>
          /\ loc[t].reply = "connect_result"
          /\ ~loc[t].ok
          /\ loc[t].ios = 0
          /\ dxl = loc[t].before.dxl
          /\ connection_info = loc[t].before.info
          /\ dxl_error_message = loc[t].before.err
          /\ sessions = loc[t].before.sessions

----------------------------------------------------------------------------
(* Properties of the codec (SpecCodec) *)

\* C18: the bytes put on the wire by a write of value v to a register of w
\* bytes are those of v mod 2^(8w) (width 1, value 300: 44); reading them back
\* gives v for every v the width represents (0..255 for one byte, the signed
\* range for two and four bytes); a two- or four-byte value whose top bit is set
\* decodes to the wire value minus 2^(8w); a one-byte value is never negative.
C18_CodecRoundTrip ==
    \A t \in Handlers :
       (loc[t].op = "codec" /\ pc[t] = "cx_done") =>
          LET w == loc[t].message.width
              v == loc[t].message.value
              b == loc[t].bytes
              low == b[1] + 256 * b[2]
              high == b[3] + 256 * b[4]
          IN  /\ Len(b) = w
              /\ \A k \in 1..w : b[k] \in 0..255
              /\ w = 1 => /\ b[1] = v % 256
                          /\ loc[t].value = b[1]
                          /\ (v \in 0..255 => loc[t].value = v)
              /\ w = 2 => /\ low = v % 65536
                          /\ loc[t].value = IF low >= 32768 THEN low - 65536 ELSE low
                          /\ (v \in -32768..32767 => loc[t].value = v)
              /\ w = 4 => /\ low = v % 65536
                          /\ high = (v \div 65536) % 65536
                          /\ (high >= 32768) = (loc[t].value < 0)
                          /\ loc[t].value = v

\* the byte 44 written for 300, read back as 44
C18_Witness ==
    \E t \in Handlers :
       /\ loc[t].op = "codec"
       /\ pc[t] = "cx_done"
       /\ loc[t].message = [width |-> 1, value |-> 300]
       /\ loc[t].bytes = <<44>>
       /\ loc[t].value = 44

----------------------------------------------------------------------------
(* The connection context between operations (Spec) *)

\* C20: whenever the connection lock is free, the metadata is empty exactly
\* when no session is active, and otherwise is the port, baud rate and ids of
\* the active session, after any sequence of successful connects, failed
\* connects and disconnects.
C20_MetadataAgreesWithSession ==
    dxl_lock = NoThread =>
       /\ (dxl = NoSession) = (connection_info = EmptyInfo)
       /\ dxl /= NoSession =>
             connection_info = [port |-> sessions[dxl].port_name,
                                baudrate |-> sessions[dxl].baudrate,
                                ids |-> sessions[dxl].ids]

----------------------------------------------------------------------------
(* The two levels of locks (Spec) *)

\* the thread is at "with dxl_lock:"
WaitsForDxlLock(t) == pc[t] \in {"cc_lock", "dc_lock", "tl_snap", "st_snap", "cmd_snap"}

\* the thread is at "with self.lock:" of a session
WaitsForSession(t) ==
    pc[t] \in {"rs_begin", "st_begin", "cmd_wr_b", "cc_ping_b", "cc_close_b", "dc_close_b"}

SessionWaitedFor(t) ==
    IF pc[t] \in {"cc_close_b", "dc_close_b"} THEN dxl ELSE loc[t].controller

\* the thread is inside a transport call, its session's lock held
InTransport(t) ==
    pc[t] \in {"rs_end", "st_end", "cmd_wr_e", "cc_ping_e", "cc_close_e", "dc_close_e"}

\* the thread is inside "with dxl_lock:" of connect_controller or disconnect_controller
InsideDxlLock(t) ==
    pc[t] \in {"cc_close_b", "cc_close_e", "cc_open", "cc_baud", "cc_ping_b", "cc_ping_e",
               "cc_install", "cc_unlock", "dc_close_b", "dc_close_e", "dc_reset",
               "dc_unlock"}

HoldsSessionLock(t) == \E s \in SessionIds : sessions[s].lock = t

\* the thread that holds the lock the thread is waiting for, if any
Blocker(t) ==
    IF WaitsForDxlLock(t) THEN dxl_lock
    ELSE IF WaitsForSession(t) THEN sessions[SessionWaitedFor(t)].lock
    ELSE NoThread

CanRun(t) == Blocker(t) = NoThread

----------------------------------------------------------------------------
(* Properties of concurrent commands (SpecCommandRace) *)

\* the write the thread's exchange carries
CurrentWrite(t) == loc[t].writes[loc[t].k]

\* set_operating_mode with auto_torque has had its torque-disable exchange and
\* has not entered its mode-write exchange
BetweenDisableAndModeWrite(t) ==
    /\ loc[t].op = "set_operating_mode"
    /\ AutoTorque(loc[t].message)
    /\ pc[t] = "cmd_wr_b"
    /\ loc[t].k = 2

\* the thread is inside an exchange that writes the torque register of the device
WritesTorqueOf(u, s, d) ==
    /\ pc[u] = "cmd_wr_e"
    /\ loc[u].controller = s
    /\ CurrentWrite(u).addr = ADDR_TORQUE_ENABLE
    /\ CurrentWrite(u).id = d

\* C22: set_operating_mode with autoTorque is atomic on its session: between
\* its torque-disable exchange and its mode-write exchange no other thread
\* carries out an exchange on that session that writes the torque register of
\* the same device.
C22_ModeChangeAtomic ==
    \A t \in Handlers, u \in Handlers :
        (t /= u /\ BetweenDisableAndModeWrite(t))
            => ~WritesTorqueOf(u, loc[t].controller, loc[t].message.id)

====
